---------------------------- MODULE Spec2Model ----------------------------
(*
  A model of the AVIF converter service (src/app.py).

  The conversion routine _to_avif_bytes is a pure function of its arguments
  and is modelled by the operator to_avif_bytes.  The two HTTP handlers
  convert_file_to_avif and convert_url_to_avif and the liveness endpoint
  root are coroutines run by one event loop; each is cut at its await
  points, and the synchronous call of the conversion routine is shown as
  an interval in which the calling coroutine keeps the loop.

  Image bytes are modelled by what they decode to.  Python floats are
  IEEE-754 doubles: true division and multiplication are modelled with a
  53-bit significand and round-to-nearest-even, significands being bit
  sequences (most significant bit first).
*)
EXTENDS Integers, Sequences, FiniteSets, TLC

(***************************************************************************)
(* Bounds of the model.                                                    *)
(***************************************************************************)
\* Number of requests the event loop handles concurrently.
NumReq == 2
\* Largest side of a decoded image, and largest requested width/height,
\* in the handler-level specifications and in SpecConv.
MaxSide == 2
\* Largest side and largest requested width/height in SpecResize.
MaxDim == 15

(***************************************************************************)
(* Program constants.                                                      *)
(***************************************************************************)
\* Query(60, ge=1, le=100)
QualityMin == 1
QualityDefault == 60
QualityMax == 100
\* Significand width of a Python float (IEEE-754 binary64).
Precision == 53
\* Optional[int] = None; `width or ...` treats None and 0 alike, and the
\* handlers only admit None or an integer >= 1, so None is written 0.
None == 0

(***************************************************************************)
(* Python float arithmetic, as used by  int(w * (height / h)).             *)
(***************************************************************************)
Bit == {0, 1}

\* Recursive helpers are functions: their arguments are values, so each
\* step of a recursion is evaluated once.
Pow2[n \in Nat] == IF n = 0 THEN 1 ELSE 2 * Pow2[n - 1]

BitsToInt[bits \in Seq(Bit)] ==
    IF bits = <<>> THEN 0
    ELSE 2 * BitsToInt[SubSeq(bits, 1, Len(bits) - 1)] + bits[Len(bits)]

IntToBits[n \in Nat] ==
    IF n = 0 THEN <<>> ELSE Append(IntToBits[n \div 2], n % 2)

\* bits + 1; one bit longer when every bit was 1.
Increment[bits \in Seq(Bit)] ==
    IF bits = <<>> THEN <<1>>
    ELSE IF bits[Len(bits)] = 0
         THEN Append(SubSeq(bits, 1, Len(bits) - 1), 1)
         ELSE Append(Increment[SubSeq(bits, 1, Len(bits) - 1)], 0)

\* Round-to-nearest, ties-to-even, of the significand `kept` (Precision
\* bits, the last of weight 2^e) followed by a round bit and a sticky flag.
RoundNearestEven(kept, roundBit, sticky, e) ==
    IF roundBit = 1 /\ (sticky \/ kept[Len(kept)] = 1)
    THEN LET up == Increment[kept] IN
         IF Len(up) > Len(kept)
         THEN [m |-> SubSeq(up, 1, Len(kept)), e |-> e + 1]
         ELSE [m |-> up, e |-> e]
    ELSE [m |-> kept, e |-> e]

\* num * 2^j for the least j >= 0 with num * 2^j >= den.
ScaleUp[num \in Nat, den \in Nat, k \in Int] ==
    IF num >= den THEN [num |-> num, den |-> den, k |-> k]
    ELSE ScaleUp[2 * num, den, k - 1]

\* den * 2^j for the greatest j >= 0 with den * 2^j <= num.
ScaleDown[num \in Nat, den \in Nat, k \in Int] ==
    IF num < 2 * den THEN [num |-> num, den |-> den, k |-> k]
    ELSE ScaleDown[num, 2 * den, k + 1]

\* n further quotient bits of the long division that left remainder rem.
DivStep[rem \in Nat, den \in Nat, n \in Nat, acc \in Seq(Bit)] ==
    IF n = 0 THEN [bits |-> acc, rem |-> rem]
    ELSE IF 2 * rem >= den
         THEN DivStep[2 * rem - den, den, n - 1, Append(acc, 1)]
         ELSE DivStep[2 * rem, den, n - 1, Append(acc, 0)]

\* a / b for ints a, b >= 1: the correctly rounded double, of value
\* BitsToInt[m] * 2^e.
TrueDiv(a, b) ==
    LET up == ScaleUp[a, b, 0]
        s  == ScaleDown[up.num, up.den, up.k]
        d  == DivStep[s.num - s.den, s.den, Precision - 1, <<1>>]
        r  == DivStep[d.rem, s.den, 1, <<>>]
    IN  RoundNearestEven(d.bits, r.bits[1], r.rem # 0, s.k - (Precision - 1))

\* The bits of  n * BitsToInt[bits] + carry.
MulBits[bits \in Seq(Bit), n \in Nat, carry \in Nat] ==
    IF bits = <<>> THEN IntToBits[carry]
    ELSE Append(MulBits[SubSeq(bits, 1, Len(bits) - 1), n,
                        (n * bits[Len(bits)] + carry) \div 2],
                (n * bits[Len(bits)] + carry) % 2)

\* n * f for an int n >= 1 (converted exactly) and a double f.
IntTimesFloat(n, f) ==
    LET prod == MulBits[f.m, n, 0]
        L    == Len(prod)
        kept == SubSeq(prod, 1, Precision)
        rb   == IF L > Precision THEN prod[Precision + 1] ELSE 0
        st   == \E i \in (Precision + 2)..L : prod[i] = 1
    IN  RoundNearestEven(kept, rb, st, f.e + (L - Precision))

\* int(f): truncation toward zero of a positive double.
FloatToInt(f) ==
    IF f.e >= 0 THEN BitsToInt[f.m] * Pow2[f.e]
    ELSE IF Precision + f.e <= 0 THEN 0
    ELSE BitsToInt[SubSeq(f.m, 1, Precision + f.e)]

(***************************************************************************)
(* The conversion routine, _to_avif_bytes.                                 *)
(***************************************************************************)
\* Exceptions are records; NoExc stands for "nothing was raised".
Exc(cls, msg) == [cls |-> cls, msg |-> msg]
NoExc == Exc("", "")

\* What a byte string decodes to.
Garbage == [kind |-> "garbage", mode |-> "", w |-> 0, h |-> 0,
            truncated |-> FALSE, encodable |-> FALSE]
ImageData(mode, w, h, truncated, encodable) ==
    [kind |-> "image", mode |-> mode, w |-> w, h |-> h,
     truncated |-> truncated, encodable |-> encodable]

\* Image.open(BytesIO(data)): identifies the format and reads the header;
\* pixel data is read lazily, at the first operation that needs it.
ImageOpen(data) ==
    IF data.kind = "image"
    THEN [exc |-> NoExc, mode |-> data.mode, w |-> data.w, h |-> data.h]
    ELSE [exc |-> Exc("UnidentifiedImageError", "cannot identify image file"),
          mode |-> "", w |-> 0, h |-> 0]

\* Faulty variant: the catch-all branch is missing.
NormalizeModePaletteOnly(mode) ==
    IF mode \in {"P", "LA"} THEN "RGBA" ELSE mode

\* The mode after the color-mode normalization.
NormalizeMode(mode) ==
    IF mode \in {"P", "LA"} THEN "RGBA"
    ELSE IF mode \notin {"RGB", "RGBA"} THEN "RGBA"
    ELSE mode

\* target_w = width or int(w * (height / h))
target_w(w, h, width, height) ==
    IF width # None THEN width
    ELSE FloatToInt(IntTimesFloat(w, TrueDiv(height, h)))

\* target_h = height or int(h * (width / w))
target_h(w, h, width, height) ==
    IF height # None THEN height
    ELSE FloatToInt(IntTimesFloat(h, TrueDiv(width, w)))

\* Whether the resize branch is taken.
ResizeRequested(width, height) == width # None \/ height # None

\* Faulty variant: quality is passed to the encoder in every case.
save_params_with_quality(quality, lossless) ==
    IF lossless
    THEN [format |-> "AVIF", lossless |-> TRUE, quality |-> quality]
    ELSE [format |-> "AVIF", quality |-> quality]

\* The keyword arguments of img.save.
save_params(quality, lossless) ==
    IF lossless
    THEN [format |-> "AVIF", lossless |-> TRUE]
    ELSE [format |-> "AVIF", quality |-> quality]

\* The outcome of a call: the exception raised (or NoExc), the resize and
\* encoder calls made (each at most one), and the bytes returned.
ConvRaise(exc, resized) ==
    [exc |-> exc, resize |-> resized, encoder |-> <<>>, out |-> <<>>]

to_avif_bytes(data, quality, lossless, width, height) ==
    LET opened  == ImageOpen(data)
        mode    == NormalizeMode(opened.mode)
        resize  == ResizeRequested(width, height)
        target  == [w |-> target_w(opened.w, opened.h, width, height),
                    h |-> target_h(opened.w, opened.h, width, height)]
        resized == IF resize THEN <<target>> ELSE <<>>
        size    == IF resize THEN target ELSE [w |-> opened.w, h |-> opened.h]
        encoder == [mode |-> mode, w |-> size.w, h |-> size.h,
                    params |-> save_params(quality, lossless)]
        cut     == Exc("OSError", "image file is truncated")
    IN  IF opened.exc # NoExc THEN ConvRaise(opened.exc, <<>>)
        \* img.convert reads the pixel data
        ELSE IF mode # opened.mode /\ data.truncated THEN ConvRaise(cut, <<>>)
        \* img.resize reads the pixel data, then refuses an empty size
        ELSE IF resize /\ data.truncated THEN ConvRaise(cut, resized)
        ELSE IF resize /\ (target.w < 1 \/ target.h < 1)
        THEN ConvRaise(Exc("ValueError", "height and width must be > 0"),
                       resized)
        \* img.save reads the pixel data before it calls the encoder
        ELSE IF data.truncated THEN ConvRaise(cut, resized)
        ELSE IF ~data.encodable
        THEN [exc |-> Exc("ValueError", "encoder error"), resize |-> resized,
              encoder |-> <<encoder>>, out |-> <<>>]
        ELSE [exc |-> NoExc, resize |-> resized,
              encoder |-> <<encoder>>, out |-> <<encoder>>]

(***************************************************************************)
(* Strings the handlers inspect are sequences of one-character strings.    *)
(***************************************************************************)
\* re.I: the letters of the pattern match in either case.  (On str
\* patterns re.I also lets "s" match U+017F; the offered urls are ASCII.)
Fold(c) ==
    CASE c = "H" -> "h" [] c = "T" -> "t" [] c = "P" -> "p" [] c = "S" -> "s"
      [] OTHER -> c

\* Whether the literal lit matches s at position i, ignoring case.
MatchAt(s, i, lit) ==
    /\ i + Len(lit) - 1 <= Len(s)
    /\ \A j \in 1..Len(lit) : Fold(s[i + j - 1]) = lit[j]

\* Faulty variant: the pattern stops after the scheme name, r"^https?".
url_scheme_only(url) == MatchAt(url, 1, <<"h", "t", "t", "p">>)

\* re.match(r"^https?://", url, flags=re.I)
url_matches(url) ==
    /\ MatchAt(url, 1, <<"h", "t", "t", "p">>)
    /\ LET i == IF MatchAt(url, 5, <<"s">>) THEN 6 ELSE 5
       IN  MatchAt(url, i, <<":", "/", "/">>)

\* The position of the last "." of s, 0 when there is none.
LastDot(s) ==
    IF \E i \in 1..Len(s) : s[i] = "." 
    THEN CHOOSE i \in 1..Len(s) :
            s[i] = "." /\ \A j \in (i + 1)..Len(s) : s[j] # "."
    ELSE 0

\* (file.filename or "image").rsplit(".", 1)[0]; no filename is <<>>.
base_name(filename) ==
    LET name == IF filename = <<>> THEN <<"i", "m", "a", "g", "e">>
                ELSE filename
    IN  IF LastDot(name) = 0 THEN name
        ELSE SubSeq(name, 1, LastDot(name) - 1)

DotAvif == <<".", "a", "v", "i", "f">>

(***************************************************************************)
(* Responses.                                                              *)
(***************************************************************************)
\* raise HTTPException(status_code=..., detail=...): a JSON error body,
\* the detail being the concatenation of the given parts.
HTTPException(status, detail) ==
    [status |-> status, media_type |-> "application/json", image |-> <<>>,
     detail |-> detail, json |-> <<>>, disposition |-> <<>>]

\* Response(content=avif, media_type="image/avif", headers=headers); the
\* disposition is the file name advised by Content-Disposition.
AvifResponse(avif, name) ==
    [status |-> 200, media_type |-> "image/avif", image |-> <<avif>>,
     detail |-> <<>>, json |-> <<>>, disposition |-> name]

\* {"ok": True, "service": "avif-converter", "version": "1.0.0"}
root_payload ==
    [status |-> 200, media_type |-> "application/json", image |-> <<>>,
     detail |-> <<>>, json |-> <<"ok", "avif-converter", "1.0.0">>,
     disposition |-> <<>>]

\* file.content_type in {"image/jpeg", "image/jpg", "image/png", "image/webp"}
content_type_accepted(ct) ==
    ct \in {"image/jpeg", "image/jpg", "image/png", "image/webp"}

\* Faulty variant: only transport errors are caught as fetch failures.
IsTransportError(e) == e.cls \in {"ConnectError", "ReadTimeout"}

\* Faulty variant: the fetch clause catches every exception.
IsAnyException(e) == TRUE

\* isinstance(e, httpx.HTTPError): the classes of httpx that derive from
\* HTTPError, among those the model raises.
IsHTTPError(e) == e.cls \in {"ConnectError", "ReadTimeout", "HTTPStatusError"}

\* except Exception as e  (convert_file_to_avif)
convert_file_except(e) == HTTPException(500, <<e.msg>>)

\* except httpx.HTTPError as e / except Exception as e  (convert_url_to_avif)
convert_url_except(e) ==
    IF IsHTTPError(e) THEN HTTPException(502, <<"Fetch failed: ", e.msg>>)
    ELSE HTTPException(500, <<e.msg>>)

\* resp.raise_for_status()
raise_for_status(status) ==
    IF status \in 200..299 THEN NoExc
    ELSE Exc("HTTPStatusError", "error status from the remote")

(***************************************************************************)
(* Requests and what the environment offers.                               *)
(***************************************************************************)
Options(quality, lossless, width, height) ==
    [quality |-> quality, lossless |-> lossless,
     width |-> width, height |-> height]

DefaultOptions == Options(QualityDefault, FALSE, None, None)

NoRequest ==
    [kind |-> "none", content_type |-> "", filename |-> <<>>,
     file |-> Garbage, url |-> <<>>, options |-> DefaultOptions]

ConvertRequest(ct, filename, file, options) ==
    [kind |-> "convert", content_type |-> ct, filename |-> filename,
     file |-> file, url |-> <<>>, options |-> options]

UrlRequest(url, options) ==
    [kind |-> "convert_url", content_type |-> "", filename |-> <<>>,
     file |-> Garbage, url |-> url, options |-> options]

RootRequest ==
    [kind |-> "root", content_type |-> "", filename |-> <<>>,
     file |-> Garbage, url |-> <<>>, options |-> DefaultOptions]

\* Outcomes of  await file.read()  and of  await client.get(url).
ReadOutcome(exc) == [exc |-> exc]
FetchOutcome(exc, status, ct, content) ==
    [exc |-> exc, status |-> status, content_type |-> ct, content |-> content]

OfferedTypes ==
    {"image/jpeg", "image/jpg", "image/png", "image/webp",
     "image/gif", "text/plain"}

Filenames == {<<>>, <<"a", ".", "b", ".", "p", "n", "g">>}

Urls ==
    { <<"h", "t", "t", "p", ":", "/", "/", "a">>,
      <<"H", "T", "T", "P", "S", ":", "/", "/", "a">>,
      <<"h", "t", "T", "p", "s", ":", "/", "/">>,
      <<"f", "t", "p", ":", "/", "/", "a">>,
      <<"h", "t", "t", "p", ":", "/", "a">>,
      <<"h", "t", "t", "p", "s", "/", "/", "a">>,
      <<" ", "h", "t", "t", "p", ":", "/", "/", "a">>,
      <<>> }

Images(modes, side) ==
    {ImageData(m, w, h, FALSE, enc) :
        m \in modes, w \in 1..side, h \in 1..side, enc \in BOOLEAN}

\* A file whose pixel data is cut short.
TruncatedImage == ImageData("RGB", 1, 1, TRUE, TRUE)

HandlerPayloads == {Garbage, TruncatedImage} \cup Images({"RGB", "P"}, MaxSide)

HandlerOptions ==
    {Options(q, l, wd, ht) :
        q \in {QualityDefault, QualityMax}, l \in BOOLEAN,
        wd \in 0..MaxSide, ht \in 0..MaxSide}

HandlerRequests ==
    {RootRequest}
    \cup {ConvertRequest(ct, fn, f, o) :
            ct \in OfferedTypes, fn \in Filenames,
            f \in HandlerPayloads, o \in HandlerOptions}
    \cup {UrlRequest(u, o) : u \in Urls, o \in HandlerOptions}

ReadOutcomes ==
    {ReadOutcome(NoExc), ReadOutcome(Exc("OSError", "read failed"))}

FetchFailures ==
    {FetchOutcome(Exc(c, "fetch error"), 0, "", Garbage) :
        c \in {"ConnectError", "ReadTimeout", "InvalidURL"}}

FetchOutcomes ==
    FetchFailures
    \cup {FetchOutcome(NoExc, st, ct, f) :
            st \in {200, 404}, ct \in {"image/png", "text/html"},
            f \in HandlerPayloads}

\* The few requests and outcomes of the concurrent specification.
LoopPayloads == {Garbage, ImageData("RGB", 1, 1, FALSE, TRUE)}

LoopRequests ==
    {RootRequest}
    \cup {ConvertRequest(ct, <<>>, f, DefaultOptions) :
            ct \in {"image/png", "text/plain"}, f \in LoopPayloads}
    \cup {UrlRequest(u, DefaultOptions) :
            u \in { <<"h", "t", "t", "p", ":", "/", "/", "a">>,
                    <<"f", "t", "p", ":", "/", "/", "a">> }}

LoopFetchOutcomes ==
    {FetchOutcome(Exc("ConnectError", "fetch error"), 0, "", Garbage)}
    \cup {FetchOutcome(NoExc, 200, "image/png", f) : f \in LoopPayloads}

(***************************************************************************)
(* State.                                                                  *)
(***************************************************************************)
VARIABLES
    pc,        \* pc[r]: where the coroutine of request r stands
    request,   \* request[r]: the request as the handler receives it
    data,      \* data[r]: the handler's local bytes (data / resp.content)
    response,  \* response[r]: the responses sent for r, in order
    running,   \* the request whose coroutine holds the event loop, or 0
    count,     \* count[r]: body reads, fetches and conversions started
    env,       \* env[r]: the outcomes of r's own read and fetch
    call,      \* arguments of a direct call of _to_avif_bytes
    result     \* what that call returned or raised

vars == <<pc, request, data, response, running, count, env, call, result>>

Reqs == 1..NumReq

NoCount == [reads |-> 0, fetches |-> 0, conversions |-> 0]
NoEnv == [read |-> <<>>, fetch |-> <<>>]
NoCall == [data |-> Garbage, options |-> DefaultOptions]

HandlersIdle ==
    /\ pc = [r \in Reqs |-> "absent"]
    /\ request = [r \in Reqs |-> NoRequest]
    /\ data = [r \in Reqs |-> <<>>]
    /\ response = [r \in Reqs |-> <<>>]
    /\ running = 0
    /\ count = [r \in Reqs |-> NoCount]
    /\ env = [r \in Reqs |-> NoEnv]

Init == HandlersIdle /\ call = NoCall /\ result = <<>>

(***************************************************************************)
(* Steps of the handlers.  A coroutine runs from one await to the next     *)
(* without giving up the loop; _to_avif_bytes is called without await.     *)
(***************************************************************************)
\* The server accepts a request and schedules its handler.
Arrive(r, req) ==
    /\ pc[r] = "absent"
    /\ pc' = [pc EXCEPT ![r] = "received"]
    /\ request' = [request EXCEPT ![r] = req]
    /\ UNCHANGED <<data, response, running, count, env, call, result>>

\* The handler ends: its return value or HTTPException becomes the response.
Finish(r, resp) ==
    /\ pc' = [pc EXCEPT ![r] = "done"]
    /\ response' = [response EXCEPT ![r] = Append(@, resp)]
    /\ running' = 0

\* Faulty variant: the bytes are kept in a module-level variable.
StoreGlobal(r, bytes) == [s \in Reqs |-> <<bytes>>]

\* Binding of the handler's local variable (data, resp).
StoreLocal(r, bytes) == [data EXCEPT ![r] = <<bytes>>]

\* The call _to_avif_bytes(...) begins; it returns in a later step, and the
\* coroutine does not await in between.
EnterConversion(r, bytes) ==
    /\ pc' = [pc EXCEPT ![r] = "in_conversion"]
    /\ data' = StoreLocal(r, bytes)
    /\ running' = r
    /\ count' = [count EXCEPT ![r].conversions = @ + 1]
    /\ UNCHANGED response

\* The conversion the handler of r runs on its local bytes.
Conversion(r) ==
    LET o == request[r].options
    IN  to_avif_bytes(data[r][1], o.quality, o.lossless, o.width, o.height)

\* convert_file_to_avif, up to  await file.read().
Start_convert_file(r) ==
    /\ running = 0
    /\ pc[r] = "received"
    /\ request[r].kind = "convert"
    /\ IF ~content_type_accepted(request[r].content_type)
       THEN /\ Finish(r, HTTPException(415,
                        <<"Only JPEG/JPG/PNG/WEBP are accepted.">>))
            /\ UNCHANGED count
       ELSE /\ pc' = [pc EXCEPT ![r] = "await_read"]
            /\ count' = [count EXCEPT ![r].reads = @ + 1]
            /\ UNCHANGED <<response, running>>
    /\ UNCHANGED <<request, data, env, call, result>>

\* file.read() completes; on success the conversion is called.
Resume_read(r, outcome) ==
    /\ running = 0
    /\ pc[r] = "await_read"
    /\ env' = [env EXCEPT ![r].read = <<outcome>>]
    /\ IF outcome.exc # NoExc
       THEN /\ Finish(r, convert_file_except(outcome.exc))
            /\ UNCHANGED <<data, count>>
       ELSE EnterConversion(r, request[r].file)
    /\ UNCHANGED <<request, call, result>>

\* _to_avif_bytes returns or raises; the response is built.
Return_convert_file(r) ==
    /\ running = r
    /\ pc[r] = "in_conversion"
    /\ request[r].kind = "convert"
    /\ LET res == Conversion(r) IN
       IF res.exc # NoExc
       THEN Finish(r, convert_file_except(res.exc))
       ELSE Finish(r, AvifResponse(res.out[1],
                        base_name(request[r].filename) \o DotAvif))
    /\ UNCHANGED <<request, data, count, env, call, result>>

\* convert_url_to_avif, up to  await client.get(url).
Start_convert_url(r) ==
    /\ running = 0
    /\ pc[r] = "received"
    /\ request[r].kind = "convert_url"
    /\ IF ~url_matches(request[r].url)
       THEN /\ Finish(r, HTTPException(400, <<"Invalid URL.">>))
            /\ UNCHANGED count
       ELSE /\ pc' = [pc EXCEPT ![r] = "await_fetch"]
            /\ count' = [count EXCEPT ![r].fetches = @ + 1]
            /\ UNCHANGED <<response, running>>
    /\ UNCHANGED <<request, data, env, call, result>>

\* The exception, if any, of  client.get(url)  followed by
\* resp.raise_for_status().
FetchError(outcome) ==
    IF outcome.exc # NoExc THEN outcome.exc
    ELSE raise_for_status(outcome.status)

\* Faulty variant: a failed fetch is issued again.
Resume_fetch_retry(r, outcome) ==
    /\ running = 0
    /\ pc[r] = "await_fetch"
    /\ env' = [env EXCEPT ![r].fetch = <<outcome>>]
    /\ IF FetchError(outcome) # NoExc
       THEN /\ count' = [count EXCEPT ![r].fetches = @ + 1]
            /\ UNCHANGED <<pc, data, response, running>>
       ELSE EnterConversion(r, outcome.content)
    /\ UNCHANGED <<request, call, result>>

\* client.get(url) completes.  The content type of the reply is computed
\* and not enforced; on success the conversion is called on resp.content.
Resume_fetch(r, outcome) ==
    /\ running = 0
    /\ pc[r] = "await_fetch"
    /\ env' = [env EXCEPT ![r].fetch = <<outcome>>]
    /\ IF FetchError(outcome) # NoExc
       THEN /\ Finish(r, convert_url_except(FetchError(outcome)))
            /\ UNCHANGED <<data, count>>
       ELSE EnterConversion(r, outcome.content)
    /\ UNCHANGED <<request, call, result>>

\* _to_avif_bytes returns or raises; the client is closed (the exit of
\* `async with`, taken together with this step) and the response is built.
Return_convert_url(r) ==
    /\ running = r
    /\ pc[r] = "in_conversion"
    /\ request[r].kind = "convert_url"
    /\ LET res == Conversion(r) IN
       IF res.exc # NoExc
       THEN Finish(r, convert_url_except(res.exc))
       ELSE Finish(r, AvifResponse(res.out[1],
                        <<"i", "m", "a", "g", "e">> \o DotAvif))
    /\ UNCHANGED <<request, data, count, env, call, result>>

\* root
Root(r) ==
    /\ running = 0
    /\ pc[r] = "received"
    /\ request[r].kind = "root"
    /\ Finish(r, root_payload)
    /\ UNCHANGED <<request, data, count, env, call, result>>

\* A step of the coroutine of r that needs no outcome of the environment.
HandlerStep(r) ==
    \/ Start_convert_file(r)
    \/ Return_convert_file(r)
    \/ Start_convert_url(r)
    \/ Return_convert_url(r)
    \/ Root(r)

(***************************************************************************)
(* Spec: one request, every offered input.                                 *)
(***************************************************************************)
ArriveOne == pc[1] = "absent" /\ \E req \in HandlerRequests : Arrive(1, req)
ReadOne == pc[1] = "await_read" /\ \E o \in ReadOutcomes : Resume_read(1, o)
FetchOne == pc[1] = "await_fetch" /\ \E o \in FetchOutcomes : Resume_fetch(1, o)

Next == ArriveOne \/ ReadOne \/ FetchOne \/ HandlerStep(1)

Spec == Init /\ [][Next]_vars

(***************************************************************************)
(* SpecLoop: NumReq requests handled concurrently by one event loop.       *)
(***************************************************************************)
ArriveAny == \E r \in Reqs, req \in LoopRequests : Arrive(r, req)
ReadAny == \E r \in Reqs, o \in ReadOutcomes : Resume_read(r, o)
FetchAny == \E r \in Reqs, o \in LoopFetchOutcomes : Resume_fetch(r, o)
StepAny == \E r \in Reqs : HandlerStep(r)

NextLoop == ArriveAny \/ ReadAny \/ FetchAny \/ StepAny

SpecLoop == Init /\ [][NextLoop]_vars

(***************************************************************************)
(* SpecConv and SpecResize: direct calls of _to_avif_bytes.                *)
(***************************************************************************)
ConvModes == {"P", "LA", "RGB", "RGBA", "L", "CMYK", "1"}

ConvPayloads == {Garbage, TruncatedImage} \cup Images(ConvModes, MaxSide)

ConvOptions ==
    {Options(q, l, wd, ht) :
        q \in {QualityMin, QualityDefault, QualityMax}, l \in BOOLEAN,
        wd \in 0..MaxSide, ht \in 0..MaxSide}

InitConv ==
    /\ HandlersIdle
    /\ call \in [data : ConvPayloads, options : ConvOptions]
    /\ result = <<>>

ResizePayloads ==
    {ImageData("RGB", w, h, FALSE, TRUE) : w \in 1..MaxDim, h \in 1..MaxDim}

ResizeOptions ==
    {Options(QualityDefault, FALSE, wd, ht) : wd \in 0..MaxDim, ht \in 0..MaxDim}

InitResize ==
    /\ HandlersIdle
    /\ call \in [data : ResizePayloads, options : ResizeOptions]
    /\ result = <<>>

\* _to_avif_bytes(data, quality, lossless, width, height)
Convert ==
    /\ result = <<>>
    /\ result' = <<to_avif_bytes(call.data, call.options.quality,
                                 call.options.lossless, call.options.width,
                                 call.options.height)>>
    /\ UNCHANGED <<pc, request, data, response, running, count, env, call>>

NextConv == Convert

SpecConv == InitConv /\ [][NextConv]_vars

SpecResize == InitResize /\ [][NextConv]_vars

(***************************************************************************)
(* Properties.                                                             *)
(***************************************************************************)
Done(r) == pc[r] = "done"
Sent(r) == response[r][1]

ListedTypes == {"image/jpeg", "image/jpg", "image/png", "image/webp"}

HttpPrefixes ==
    { <<"h", "t", "t", "p", ":", "/", "/">>,
      <<"h", "t", "t", "p", "s", ":", "/", "/">> }

StartsWithHttp(url) ==
    \E p \in HttpPrefixes :
        /\ Len(url) >= Len(p)
        /\ \A i \in 1..Len(p) : Fold(url[i]) = p[i]

Rejected(r) ==
    \/ request[r].kind = "convert" /\ request[r].content_type \notin ListedTypes
    \/ request[r].kind = "convert_url" /\ ~StartsWithHttp(request[r].url)

RejectionStatus(r) == IF request[r].kind = "convert" THEN 415 ELSE 400

\* C1: a /convert request whose content type is not listed is answered 415
\* and a /convert-url request whose url does not start with http:// or
\* https:// (in any case) is answered 400, and when the rejection is
\* produced the handler has read no body, issued no fetch and called no
\* conversion.
C1_RejectedBeforeIO ==
    \A r \in Reqs :
        (Rejected(r) /\ pc[r] \notin {"absent", "received"})
            => /\ Done(r)
               /\ Sent(r).status = RejectionStatus(r)
               /\ count[r] = NoCount

C1_Witness ==
    \E r \in Reqs :
        /\ Done(r)
        /\ request[r].kind = "convert_url"
        /\ request[r].url = <<"h", "t", "t", "p", ":", "/", "a">>
        /\ Sent(r).status = 400

\* The fetch failed at the network or HTTP level: no connection, a
\* timeout, or a reply whose status is not 2xx.
TransportFailure(o) ==
    \/ o.exc.cls \in {"ConnectError", "ReadTimeout"}
    \/ o.exc = NoExc /\ o.status \notin 200..299

\* C2: a /convert-url request whose fetch fails at the network or HTTP level
\* is answered 502 with a detail that starts with "Fetch failed: ", and the
\* conversion routine is not called for it.
C2_FetchFailureIs502 ==
    \A r \in Reqs :
        (Done(r) /\ env[r].fetch # <<>> /\ TransportFailure(env[r].fetch[1]))
            => /\ Sent(r).status = 502
               /\ Sent(r).detail[1] = "Fetch failed: "
               /\ count[r].conversions = 0

C2_Witness ==
    \E r \in Reqs :
        /\ Done(r)
        /\ env[r].fetch # <<>>
        /\ env[r].fetch[1].exc = NoExc
        /\ env[r].fetch[1].status = 404
        /\ Sent(r).status = 502

Corrupt(d) == d.kind = "garbage" \/ d.truncated

ConversionRaises(d, o) ==
    to_avif_bytes(d, o.quality, o.lossless, o.width, o.height).exc # NoExc

\* C3: on /convert, once the content type is accepted, a failing body read
\* or a failing conversion (in particular of a non-image or corrupted
\* payload) is answered 500; on /convert-url, once the fetch succeeded, a
\* failing conversion is answered 500, never 502.
C3_ProcessingFailureIs500 ==
    \A r \in Reqs :
        /\ ( /\ Done(r)
             /\ request[r].kind = "convert"
             /\ request[r].content_type \in ListedTypes
             /\ \/ env[r].read[1].exc # NoExc
                \/ Corrupt(request[r].file)
                \/ ConversionRaises(request[r].file, request[r].options) )
           => Sent(r).status = 500
        /\ ( /\ Done(r)
             /\ request[r].kind = "convert_url"
             /\ env[r].fetch # <<>>
             /\ env[r].fetch[1].exc = NoExc
             /\ env[r].fetch[1].status \in 200..299
             /\ \/ Corrupt(env[r].fetch[1].content)
                \/ ConversionRaises(env[r].fetch[1].content,
                                    request[r].options) )
           => Sent(r).status = 500

C3_Witness ==
    \E r \in Reqs :
        /\ Done(r)
        /\ request[r].kind = "convert_url"
        /\ env[r].fetch # <<>>
        /\ env[r].fetch[1].exc = NoExc
        /\ env[r].fetch[1].status = 200
        /\ env[r].fetch[1].content = Garbage
        /\ Sent(r).status = 500

\* The size of the decoded image and the requested size of a direct call.
OrigW == call.data.w
OrigH == call.data.h
ReqW == call.options.width
ReqH == call.options.height

\* The size the claim expects resize to be called with.
ExactTarget ==
    IF ReqW # None /\ ReqH # None THEN [w |-> ReqW, h |-> ReqH]
    ELSE IF ReqW # None THEN [w |-> ReqW, h |-> (OrigH * ReqW) \div OrigW]
    ELSE [w |-> (OrigW * ReqH) \div OrigH, h |-> ReqH]

\* C4: the size passed to resize is (width, height) when both are given,
\* (width, floor(h * width / w)) when only width is given and
\* (floor(w * height / h), height) when only height is given; when neither
\* is given there is no resize and the encoded image has the original size.
C4_TargetSize ==
    result # <<>> =>
        IF ReqW # None \/ ReqH # None
        THEN result[1].resize = <<ExactTarget>>
        ELSE /\ result[1].resize = <<>>
             /\ result[1].encoder[1].w = OrigW
             /\ result[1].encoder[1].h = OrigH

\* C5: when the encoder is reached the mode is RGB or RGBA: RGB and RGBA
\* inputs keep their mode, every other mode has become RGBA, and a resize
\* leaves the mode as it is.
C5_EncoderMode ==
    (result # <<>> /\ result[1].encoder # <<>>)
        => /\ result[1].encoder[1].mode \in {"RGB", "RGBA"}
           /\ result[1].encoder[1].mode =
                 IF call.data.mode \in {"RGB", "RGBA"} THEN call.data.mode
                 ELSE "RGBA"

C5_Witness ==
    /\ result # <<>>
    /\ call.data.mode = "L"
    /\ result[1].resize # <<>>
    /\ result[1].encoder # <<>>
    /\ result[1].encoder[1].mode = "RGBA"

\* C6: with lossless the encoder gets lossless mode and no quality, and the
\* call's outcome is the same for every quality; without lossless it gets
\* exactly the given quality and no lossless flag.
C6_LosslessIgnoresQuality ==
    (result # <<>> /\ result[1].encoder # <<>>)
        => IF call.options.lossless
           THEN /\ result[1].encoder[1].params =
                      [format |-> "AVIF", lossless |-> TRUE]
                /\ \A q \in {QualityMin, QualityDefault, QualityMax} :
                      to_avif_bytes(call.data, q, TRUE, ReqW, ReqH) = result[1]
           ELSE result[1].encoder[1].params =
                      [format |-> "AVIF", quality |-> call.options.quality]

C6_Witness ==
    /\ result # <<>>
    /\ call.options.lossless
    /\ call.options.quality = QualityMax
    /\ result[1].out # <<>>
    /\ DOMAIN result[1].out[1].params = {"format", "lossless"}

\* What a finished /convert or /convert-url request was answered.
TerminalResponse(r) ==
    \/ /\ Sent(r).status = 200
       /\ Sent(r).media_type = "image/avif"
       /\ Sent(r).image # <<>>
       /\ Sent(r).image = Conversion(r).out
    \/ /\ Sent(r).status \in {415, 400, 502, 500}
       /\ Sent(r).image = <<>>

AttemptedOnce ==
    \A r \in Reqs :
        /\ count[r].reads <= 1
        /\ count[r].fetches <= 1
        /\ count[r].conversions <= 1
        /\ Len(response[r]) <= 1
        /\ Done(r) <=> Len(response[r]) = 1
        /\ (Done(r) /\ request[r].kind \in {"convert", "convert_url"})
              => TerminalResponse(r)

StaysDone ==
    \A r \in Reqs :
        Done(r) => /\ pc'[r] = pc[r]
                   /\ response'[r] = response[r]
                   /\ count'[r] = count[r]

\* A request that has been received and not answered yet can take a step:
\* it is answered unless the loop or its read or fetch stops for good.
\* (An invariant of Spec, beside C7.)
NeverStuck ==
    (pc[1] \notin {"absent", "done"})
        => \/ ENABLED HandlerStep(1)
           \/ ENABLED ReadOne
           \/ ENABLED FetchOne

\* C7: the body read, the fetch and the conversion are each attempted at
\* most once per request, and a request ends in exactly one response, 200
\* image/avif with the whole encoder output or 415, 400, 502 or 500 with no
\* image bytes; after it nothing more is done for the request.
C7_TerminalNoRetry == []AttemptedOnce /\ [][StaysDone]_vars

C7_Witness ==
    \E r \in Reqs :
        /\ Done(r)
        /\ request[r].kind = "convert_url"
        /\ count[r].fetches = 1
        /\ count[r].conversions = 1
        /\ Sent(r).status = 500

\* The answer the handler gives to request req alone, its read and fetch
\* having the outcomes e.
SoloConversion(req, bytes) ==
    to_avif_bytes(bytes, req.options.quality, req.options.lossless,
                  req.options.width, req.options.height)

SoloResponse(req, e) ==
    CASE req.kind = "root" -> root_payload
      [] req.kind = "convert" ->
            IF ~content_type_accepted(req.content_type)
            THEN HTTPException(415, <<"Only JPEG/JPG/PNG/WEBP are accepted.">>)
            ELSE IF e.read[1].exc # NoExc
            THEN convert_file_except(e.read[1].exc)
            ELSE IF SoloConversion(req, req.file).exc # NoExc
            THEN convert_file_except(SoloConversion(req, req.file).exc)
            ELSE AvifResponse(SoloConversion(req, req.file).out[1],
                              base_name(req.filename) \o DotAvif)
      [] req.kind = "convert_url" ->
            IF ~url_matches(req.url)
            THEN HTTPException(400, <<"Invalid URL.">>)
            ELSE IF FetchError(e.fetch[1]) # NoExc
            THEN convert_url_except(FetchError(e.fetch[1]))
            ELSE IF SoloConversion(req, e.fetch[1].content).exc # NoExc
            THEN convert_url_except(
                    SoloConversion(req, e.fetch[1].content).exc)
            ELSE AvifResponse(SoloConversion(req, e.fetch[1].content).out[1],
                              <<"i", "m", "a", "g", "e">> \o DotAvif)

OwnInputsOnly ==
    \A r \in Reqs : Done(r) => response[r] = <<SoloResponse(request[r], env[r])>>

\* Every step touches the state of at most one request.
OneRequestPerStep ==
    \E r \in Reqs :
        \A s \in Reqs \ {r} :
            /\ pc'[s] = pc[s]
            /\ request'[s] = request[s]
            /\ data'[s] = data[s]
            /\ response'[s] = response[s]
            /\ count'[s] = count[s]
            /\ env'[s] = env[s]

\* C8: under every interleaving of concurrent requests the response to a
\* request is the one the handler gives to that request alone, given the
\* outcome of its own read or fetch, and no step of one request changes the
\* state of another.
C8_RequestsIndependent == []OwnInputsOnly /\ [][OneRequestPerStep]_vars

C8_Witness ==
    \E r, s \in Reqs :
        /\ r # s
        /\ Done(r)
        /\ Sent(r).status = 200
        /\ Sent(r).media_type = "image/avif"
        /\ pc[s] = "await_fetch"
        /\ count[s].fetches = 1

Pending(s) == pc[s] \in {"received", "await_read", "await_fetch"}

CanStep(s) ==
    \/ ENABLED HandlerStep(s)
    \/ ENABLED (\E o \in ReadOutcomes : Resume_read(s, o))
    \/ ENABLED (\E o \in LoopFetchOutcomes : Resume_fetch(s, o))

\* C9: while one request is inside the conversion routine, every other
\* pending request can still take a step on the event loop.
C9_ConversionOffloaded ==
    \A r, s \in Reqs :
        (r # s /\ pc[r] = "in_conversion" /\ Pending(s)) => CanStep(s)

\* C10: whenever resize is called, both sides of the target size are >= 1.
C10_TargetPositive ==
    (result # <<>> /\ result[1].resize # <<>>)
        => /\ result[1].resize[1].w >= 1
           /\ result[1].resize[1].h >= 1

=============================================================================
